---- MODULE Spec2Model ----
(***************************************************************************)
(* The flocker control-service client of ClusterHQ/flocker-go.             *)
(*                                                                         *)
(* src/client.go holds two revisions of the client: the exported Client    *)
(* (lines 1-331) and flockerClient (lines 333-627).  Both are modelled;    *)
(* the variable impl says which one a behaviour runs.  The control service *)
(* is the environment: every response is a nondeterministic choice.        *)
(***************************************************************************)
EXTENDS Integers, Sequences, FiniteSets, TLC

VARIABLES
    impl,           \* "flockerClient" or "Client": the revision under execution
    c,              \* the client's connection parameters (read-only after NewClient)
    op,             \* the operation invoked
    pc,             \* where the invocation stands
    dir,            \* the name argument
    err,            \* the function-scope variable err of the running operation
    datasetID,      \* CreateVolume's dataset id local (datasetID, or p.DatasetID)
    payload,        \* the payload of the POST in flight
    reqs,           \* the requests issued so far, in order
    open,           \* response bodies obtained and not yet closed
    deferred,       \* CreateVolume has a deferred resp.Body.Close() pending
    now,            \* time units elapsed since the two timers were created
    timeoutChan,    \* the one-shot timer has fired and was not received
    tickChan,       \* a tick is buffered in the ticker's channel
    ret,            \* the values returned, once pc = "done"
    exit,           \* the return statement that was executed
    nodesResp,      \* the response to GET state/nodes, until the POST is answered
    postStatus,     \* the status of the response to the POST (0: none)
    stateResp,      \* the response to the latest GET state/datasets
    configResp,     \* the response to GET configuration/datasets (or the body searched)
    nChecks,        \* the state checks begun
    nAnswered,      \* the state checks answered
    nAbsent         \* the answers that were a list with no entry for datasetID

client == <<impl, c>>
frame  == <<op, pc, dir, err, ret, exit>>
locals == <<datasetID, payload>>
wire   == <<reqs, open, deferred>>
timers == <<now, timeoutChan, tickChan>>
ghost  == <<nodesResp, postStatus, stateResp, configResp, nChecks, nAnswered, nAbsent>>
vars   == <<client, frame, locals, wire, timers, ghost>>

----------------------------------------------------------------------------
(* Bounds of the model *)

\* The longest list the control service answers with.
MaxLen == 2
\* How many time units the clock keeps running after the deadline.
MaxLate == 1

(* The two tunables, in abstract time units (the source's defaults are 5 s  *)
(* and 2 min; they are package variables, and the tests override them).    *)
tickerWaitingForVolume == 1
timeoutWaitingForVolume == 3

StatusConflict == 409

MaxTime == timeoutWaitingForVolume + MaxLate

Impls == {"flockerClient", "Client"}
Names == {"dir", "hello"}
Hosts == {"127.0.0.1", "10.0.0.2"}
UUIDs == {"P1", "P2"}
Paths == {"P", "Q"}
Statuses == {100, 299, 300, 409, 500}

\* A json.Number is the sequence of its decimal digits; <<>> is the empty string.
defaultVolumeSizeOffByOne == <<1, 0, 7, 3, 7, 4, 1, 8, 2, 3, 9, 9>>

defaultVolumeSize == <<1, 0, 7, 3, 7, 4, 1, 8, 2, 4, 0, 0>>

----------------------------------------------------------------------------
(* Identifier derivation: uuid.NewHash(md5.New(), uuid.NIL, name, 4), as   *)
(* the table of its values on Names.                                       *)
datasetIDFromName(v) ==
    CASE v = "hello" -> "a6c0426f-f9a3-4b59-a62f-4807c382b768"
      [] v = "dir"   -> "7c78121e-2056-48e9-9c8c-f6ee23187e22"

DatasetIDs == {datasetIDFromName(n) : n \in Names}

----------------------------------------------------------------------------
(* Errors.  An error value is a record; NoErr is Go's nil error. *)
Err(kind) == [kind |-> kind, status |-> 0]
NoErr == Err("nil")
errStateNotFound == Err("State not found by Dataset ID")
errConfigurationNotFound == Err("Configuration not found by Name")
errVolumeAlreadyExists == Err("The volume already exists")
errVolumeDoesNotExist == Err("The volume does not exist")
errUpdatingDataset == Err("It was impossible to update the dataset")
\* fmt.Errorf("Expected: {1,2}xx creating the volume, got: %d", status)
ErrCreating(status) == [kind |-> "Expected: {1,2}xx creating the volume, got", status |-> status]
\* What http.Client.Do and json.Decoder.Decode fail with.
TransportErrors == {Err("connection refused"), Err("unexpected EOF")}
DecodeError == Err("invalid character")

----------------------------------------------------------------------------
(* Responses.  A response is the transport's error (NoErr when a response  *)
(* came), the status, and the body: malformed, or the decoded JSON value.  *)
SeqsUpTo(S, n) == UNION {[1..k -> S] : k \in 0..n}

Response(e, status, malformed, items) ==
    [err |-> e, status |-> status, malformed |-> malformed, items |-> items]
NoResponse == Response(NoErr, 0, FALSE, <<>>)

Failures == {Response(e, 0, FALSE, <<>>) : e \in TransportErrors}
Malformed == Response(NoErr, 200, TRUE, <<>>)

\* nodeStatePayload
NodeStates == [UUID : UUIDs, Host : Hosts]
NodesResponses ==
    Failures \cup {Malformed}
        \cup {Response(NoErr, 200, FALSE, l) : l \in SeqsUpTo(NodeStates, MaxLen)}

(* datasetStatePayload embeds *datasetState: the pointer stays nil when the *)
(* JSON element carries none of datasetState's fields ({} or null).        *)
NilState == [nil |-> TRUE, Path |-> "", DatasetID |-> ""]
State(path, id) == [nil |-> FALSE, Path |-> path, DatasetID |-> id]
DatasetStates == {NilState} \cup {State(p, id) : p \in Paths, id \in DatasetIDs}
StateResponses ==
    Failures \cup {Malformed}
        \cup {Response(NoErr, 200, FALSE, l) : l \in SeqsUpTo(DatasetStates, MaxLen)}

\* configurationPayload, as an element of the configuration list
Configuration(id, name) ==
    [Primary |-> "", DatasetID |-> id, MaximumSize |-> <<>>, Name |-> name]
Configurations == {Configuration(id, n) : id \in DatasetIDs, n \in Names}
ConfigBodies ==
    {Malformed} \cup {Response(NoErr, 200, FALSE, l) : l \in SeqsUpTo(Configurations, MaxLen)}
ConfigResponses == Failures \cup ConfigBodies

\* The POST's response: its body is one configurationPayload object.
PostResponses ==
    Failures
        \cup {Response(NoErr, s, TRUE, <<>>) : s \in Statuses}
        \cup {Response(NoErr, s, FALSE, <<id>>) : s \in Statuses, id \in DatasetIDs}

----------------------------------------------------------------------------
(* The pure parts of the client *)

\* The address a node's host is compared with.
MatchHost(i, cl) == IF i = "flockerClient" THEN cl.host ELSE cl.clientIP

RECURSIVE NodesLoop(_, _, _)
NodesLoop(states, i, host) ==
    IF i > Len(states) THEN [uuid |-> "", err |-> errStateNotFound]
    ELSE IF states[i].Host = host THEN [uuid |-> states[i].UUID, err |-> NoErr]
    ELSE NodesLoop(states, i + 1, host)

RECURSIVE NodesLoopLast(_, _, _, _)
NodesLoopLast(states, i, host, found) ==
    IF i > Len(states) THEN found
    ELSE IF states[i].Host = host
    THEN NodesLoopLast(states, i + 1, host, [uuid |-> states[i].UUID, err |-> NoErr])
    ELSE NodesLoopLast(states, i + 1, host, found)

\* A lookup whose loop does not stop at the first match.
LookupPrimaryUUIDLastMatch(i, cl, resp) ==
    IF resp.err # NoErr THEN [uuid |-> "", err |-> resp.err]
    ELSE IF resp.malformed THEN [uuid |-> "", err |-> DecodeError]
    ELSE NodesLoopLast(resp.items, 1, MatchHost(i, cl), [uuid |-> "", err |-> errStateNotFound])

\* findPrimaryUUID / LookupPrimaryUUID, given the response to GET state/nodes
LookupPrimaryUUID(i, cl, resp) ==
    IF resp.err # NoErr THEN [uuid |-> "", err |-> resp.err]
    ELSE IF resp.malformed THEN [uuid |-> "", err |-> DecodeError]
    ELSE NodesLoop(resp.items, 1, MatchHost(i, cl))

Outcome(s, e, panicked) == [s |-> s, err |-> e, panicked |-> panicked]

RECURSIVE StatesLoop(_, _, _)
StatesLoop(states, i, id) ==
    IF i > Len(states) THEN Outcome(NilState, errStateNotFound, FALSE)
    ELSE IF states[i].nil THEN Outcome(NilState, NoErr, TRUE)
    ELSE IF states[i].DatasetID = id THEN Outcome(states[i], NoErr, FALSE)
    ELSE StatesLoop(states, i + 1, id)

\* GetDatasetState, given the response to GET state/datasets
GetDatasetState(resp, id) ==
    IF resp.err # NoErr THEN Outcome(NilState, resp.err, FALSE)
    ELSE IF resp.malformed THEN Outcome(NilState, DecodeError, FALSE)
    ELSE StatesLoop(resp.items, 1, id)

RECURSIVE ConfigurationsLoop(_, _, _)
ConfigurationsLoop(configurations, i, name) ==
    IF i > Len(configurations) THEN [id |-> "", err |-> errConfigurationNotFound]
    ELSE IF configurations[i].Name = name
    THEN [id |-> configurations[i].DatasetID, err |-> NoErr]
    ELSE ConfigurationsLoop(configurations, i + 1, name)

RECURSIVE ConfigurationsLoopLast(_, _, _, _)
ConfigurationsLoopLast(configurations, i, name, found) ==
    IF i > Len(configurations) THEN found
    ELSE IF configurations[i].Name = name
    THEN ConfigurationsLoopLast(configurations, i + 1, name,
                                [id |-> configurations[i].DatasetID, err |-> NoErr])
    ELSE ConfigurationsLoopLast(configurations, i + 1, name, found)

\* A search whose loop does not stop at the first match.
findIDInConfigurationsPayloadLastMatch(body, name) ==
    IF body.malformed THEN [id |-> "", err |-> DecodeError]
    ELSE ConfigurationsLoopLast(body.items, 1, name,
                                [id |-> "", err |-> errConfigurationNotFound])

\* findIDInConfigurationsPayload, given the body it decodes
findIDInConfigurationsPayload(body, name) ==
    IF body.malformed THEN [id |-> "", err |-> DecodeError]
    ELSE ConfigurationsLoop(body.items, 1, name)

\* Client.QueryDatasetIDFromName, given the response to GET configuration/datasets
QueryDatasetIDFromName(resp, v) ==
    IF resp.err # NoErr THEN [id |-> "", err |-> resp.err]
    ELSE IF resp.malformed THEN [id |-> "", err |-> DecodeError]
    ELSE ConfigurationsLoop(resp.items, 1, v)

\* configurationPayload; "" is an omitted field
NoPayload == [Primary |-> "", DatasetID |-> "", MaximumSize |-> <<>>, Name |-> ""]
\* A payload that leaves the maximum size out.
CreatePayloadNoSize(i, cl, prim, name) ==
    [Primary     |-> prim,
     DatasetID   |-> IF i = "flockerClient" THEN datasetIDFromName(name) ELSE "",
     MaximumSize |-> <<>>,
     Name        |-> name]

CreatePayload(i, cl, prim, name) ==
    [Primary     |-> prim,
     DatasetID   |-> IF i = "flockerClient" THEN datasetIDFromName(name) ELSE "",
     MaximumSize |-> cl.maximumSize,
     Name        |-> name]

----------------------------------------------------------------------------
NoRet == [path |-> "", err |-> NoErr]

Init ==
    /\ impl \in Impls
    /\ c \in [host : {"127.0.0.1"},
              clientIP : IF impl = "Client" THEN Hosts ELSE {""},
              maximumSize : {defaultVolumeSize}]
    /\ op = "none" /\ pc = "idle" /\ dir = "" /\ err = NoErr
    /\ ret = NoRet /\ exit = "none"
    /\ datasetID = "" /\ payload = NoPayload
    /\ reqs = <<>> /\ open = 0 /\ deferred = FALSE
    /\ now = 0 /\ timeoutChan = FALSE /\ tickChan = FALSE
    /\ nodesResp = NoResponse /\ postStatus = 0 /\ stateResp = NoResponse
    /\ configResp = NoResponse
    /\ nChecks = 0 /\ nAnswered = 0 /\ nAbsent = 0

\* A close that is left out.
CloseBodyMissing(n) == n

\* resp.Body.Close(), on the count of open bodies.
CloseBody(n) == n - 1

\* c.get / c.post returned r: a response carries a body, a failure none.
Obtained(n, r) == IF r.err = NoErr THEN n + 1 ELSE n

\* The Close of r's body (deferred or immediate), which the code reaches
\* only past its `if err != nil { return }`.
Released(n, r) == IF r.err = NoErr THEN CloseBody(n) ELSE n

\* The deferred resp.Body.Close() of CreateVolume, run as CreateVolume exits.
RunDeferred(n, d) == IF d THEN CloseBody(n) ELSE n

\* A return statement; what is deferred runs on the way out.
Return(path, e, how) ==
    /\ ret' = [path |-> path, err |-> e]
    /\ exit' = how
    /\ pc' = "done"
    /\ deferred' = FALSE

Issue(request) == reqs' = Append(reqs, request)

\* A request: method and path below {schema}://{host}:{port}/{version}/; id
\* is the last segment of configuration/datasets/{id}, "" elsewhere.
Req(method, path, id) == [method |-> method, path |-> path, id |-> id]

GetNodes == Req("GET", "state/nodes", "")
PostDatasets == Req("POST", "configuration/datasets", "")
\* A state check sent to the configuration endpoint.
GetStatesFromConfiguration == Req("GET", "configuration/datasets", "")
GetStates == Req("GET", "state/datasets", "")
\* A name query sent to the state endpoint.
GetConfigurationsFromState == Req("GET", "state/datasets", "")
GetConfigurations == Req("GET", "configuration/datasets", "")
PostDatasetByID(id) == Req("POST", "configuration/datasets/{id}", id)

----------------------------------------------------------------------------
(* Decisions of CreateVolume *)

\* A status test that lets 300 through.
AfterPostAbove300(status) ==
    IF status = StatusConflict THEN "conflict"
    ELSE IF status > 300 THEN "failed"
    ELSE "accepted"

\* What CreateVolume does with the status of the POST's response.
AfterPost(status) ==
    IF status = StatusConflict THEN "conflict"
    ELSE IF status >= 300 THEN "failed"
    ELSE "accepted"

\* What CreateVolume returns when the volume was previously created.
ConflictResult(id) == [path |-> "", err |-> errVolumeAlreadyExists]

\* A loop that polls again on every error.
AfterCheckRetriesOnError(e) ==
    IF e = NoErr THEN "ready" ELSE "select"

\* What the poll loop does with the error of GetDatasetState.
AfterCheck(e) ==
    IF e = NoErr THEN "ready"
    ELSE IF e # errStateNotFound THEN "failed"
    ELSE "select"

\* A loop that returns the dataset id it polled for.
ReadyResultID(s, id) == [path |-> id, err |-> NoErr]

\* What the loop returns on success.
ReadyResult(s, id) == [path |-> s.Path, err |-> NoErr]

(* What `return "", err` under `case <-timeoutChan` returns: err there is   *)
(* the function's err, last assigned by the POST; the loop's own err is    *)
(* declared by the if statement and is out of scope.                       *)
TimeoutResult(outerErr, loopErr) == [path |-> "", err |-> outerErr]

\* An id taken as given, whatever the revision.
PolledIDAsGiven(i, name, p) == p

(* The dataset id an operation addresses: derived from the name in          *)
(* flockerClient; in Client the id p it was given (by the POST's response   *)
(* in CreateVolume, by QueryDatasetIDFromName in LookupVolume, by its       *)
(* caller in UpdateDatasetPrimary).                                         *)
PolledID(i, name, p) == IF i = "flockerClient" THEN datasetIDFromName(name) ELSE p

\* A translation that reports every failure as a missing volume.
LookupTranslateAll(e) == errVolumeDoesNotExist

\* The switch of LookupVolume.
LookupTranslate(e) == IF e = errStateNotFound THEN errVolumeDoesNotExist ELSE e

\* What LookupVolume returns, given what GetDatasetState returned.
LookupVolumeResult(res) ==
    IF res.err = NoErr THEN [path |-> res.s.Path, err |-> res.err]
    ELSE [path |-> "", err |-> LookupTranslate(res.err)]

\* The status test of Client.UpdateDatasetPrimary, in both revisions.
UpdateFailedFrom300(i, status) == status >= 300

\* The status test of UpdateDatasetPrimary.
UpdateFailed(i, status) ==
    IF i = "flockerClient" THEN status < 200 \/ status >= 300 ELSE status >= 300

\* The payload of UpdateDatasetPrimary.
UpdatePayload(newPrimary) ==
    [Primary |-> newPrimary, DatasetID |-> "", MaximumSize |-> <<>>, Name |-> ""]

\* A timer that fires one time unit late.
TimerFiresLate(t) == t = timeoutWaitingForVolume + 1

\* The timers: time.NewTimer(timeout) fires once, time.NewTicker(d) every d.
TimerFires(t) == t = timeoutWaitingForVolume
TickerFires(t) == t % tickerWaitingForVolume = 0

\* A well-formed list with no entry for id (a nil element has no dataset id).
Absent(resp, id) ==
    /\ resp.err = NoErr /\ ~resp.malformed
    /\ \A k \in 1..Len(resp.items) : resp.items[k].nil \/ resp.items[k].DatasetID # id

----------------------------------------------------------------------------
(* Operations *)

CallCreateVolume ==
    /\ pc = "idle"
    /\ \E name \in Names : dir' = name
    /\ op' = "CreateVolume"
    /\ pc' = "findPrimaryUUID"
    /\ Issue(GetNodes)
    /\ UNCHANGED <<client, err, ret, exit, locals, open, deferred, timers, ghost>>

CallLookupPrimaryUUID ==
    /\ pc = "idle"
    /\ op' = "LookupPrimaryUUID"
    /\ pc' = "findPrimaryUUID"
    /\ Issue(GetNodes)
    /\ UNCHANGED <<client, dir, err, ret, exit, locals, open, deferred, timers, ghost>>

\* GET state/nodes is answered: the rest of findPrimaryUUID, and of
\* CreateVolume up to the POST.
NodesResponse ==
    /\ pc = "findPrimaryUUID"
    /\ \E r \in NodesResponses :
        LET res == LookupPrimaryUUID(impl, c, r) IN
        /\ nodesResp' = r
        /\ err' = res.err
        /\ open' = Released(Obtained(open, r), r)
        /\ IF op = "LookupPrimaryUUID"
           THEN /\ Return(res.uuid, res.err, "lookup")
                /\ UNCHANGED <<locals, reqs>>
           ELSE IF res.err # NoErr
           THEN /\ Return("", res.err, "lookup")
                /\ UNCHANGED <<locals, reqs>>
           ELSE /\ datasetID' = PolledID(impl, dir, "")
                /\ payload' = CreatePayload(impl, c, res.uuid, dir)
                /\ Issue(PostDatasets)
                /\ pc' = "post"
                /\ UNCHANGED <<ret, exit, deferred>>
    /\ UNCHANGED <<client, op, dir, timers, postStatus, stateResp, configResp, nChecks, nAnswered, nAbsent>>

\* The timers are created and the loop's first GetDatasetState begins.
EnterPolling ==
    /\ now' = 0 /\ timeoutChan' = FALSE /\ tickChan' = FALSE
    /\ Issue(GetStates)
    /\ nChecks' = 1
    /\ pc' = "GetDatasetState"

\* The POST is answered: CreateVolume up to the loop's first request.
PostResponse ==
    /\ pc = "post"
    /\ \E r \in PostResponses :
        /\ err' = r.err
        /\ postStatus' = r.status
        /\ nodesResp' = NoResponse
        /\ payload' = NoPayload
        /\ open' = IF impl = "Client" /\ AfterPost(r.status) = "accepted" /\ ~r.malformed
                   THEN Obtained(open, r)
                   ELSE Released(Obtained(open, r), r)
        /\ IF r.err # NoErr
           THEN /\ Return("", r.err, "post")
                /\ UNCHANGED <<datasetID, reqs, timers, nChecks>>
           ELSE IF AfterPost(r.status) = "conflict"
           THEN /\ Return(ConflictResult(datasetID).path, ConflictResult(datasetID).err, "conflict")
                /\ UNCHANGED <<datasetID, reqs, timers, nChecks>>
           ELSE IF AfterPost(r.status) = "failed"
           THEN /\ Return("", ErrCreating(r.status), "status")
                /\ UNCHANGED <<datasetID, reqs, timers, nChecks>>
           ELSE IF impl = "Client" /\ r.malformed
           THEN /\ Return("", DecodeError, "decode")
                /\ UNCHANGED <<datasetID, reqs, timers, nChecks>>
           ELSE /\ datasetID' = PolledID(impl, dir, IF r.malformed THEN "" ELSE r.items[1])
                /\ EnterPolling
                /\ deferred' = (impl = "Client")
                /\ UNCHANGED <<ret, exit>>
    /\ UNCHANGED <<client, op, dir, stateResp, configResp, nAnswered, nAbsent>>

\* GET state/datasets is answered: the rest of GetDatasetState, and what
\* its caller does with the result (the loop's if statement in CreateVolume).
StateResponse ==
    /\ pc = "GetDatasetState"
    /\ \E r \in StateResponses :
        LET res == GetDatasetState(r, datasetID) IN
        /\ stateResp' = r
        /\ nAnswered' = nAnswered + 1
        /\ nAbsent' = IF Absent(r, datasetID) THEN nAbsent + 1 ELSE nAbsent
        /\ open' = RunDeferred(Released(Obtained(open, r), r),
                               deferred /\ (res.panicked \/ AfterCheck(res.err) # "select"))
        /\ IF res.panicked
           THEN /\ pc' = "panicked"
                /\ exit' = "panic"
                /\ deferred' = FALSE
                /\ UNCHANGED <<ret, err>>
           ELSE IF op = "GetDatasetState"
           THEN /\ Return(res.s.Path, res.err, "state")
                /\ err' = res.err
           ELSE IF op = "LookupVolume"
           THEN /\ Return(LookupVolumeResult(res).path, LookupVolumeResult(res).err, "lookedup")
                /\ err' = res.err
           ELSE IF AfterCheck(res.err) = "ready"
           THEN /\ Return(ReadyResult(res.s, datasetID).path, ReadyResult(res.s, datasetID).err, "ready")
                /\ UNCHANGED err
           ELSE IF AfterCheck(res.err) = "failed"
           THEN /\ Return("", res.err, "check")
                /\ UNCHANGED err
           ELSE /\ pc' = "select"
                /\ UNCHANGED <<ret, exit, deferred, err>>
    /\ UNCHANGED <<client, op, dir, locals, reqs, timers, nodesResp, postStatus, configResp, nChecks>>

\* GetDatasetState(datasetID), called on its own.
CallGetDatasetState ==
    /\ pc = "idle"
    /\ \E id \in DatasetIDs : datasetID' = id
    /\ op' = "GetDatasetState"
    /\ Issue(GetStates)
    /\ nChecks' = 1
    /\ pc' = "GetDatasetState"
    /\ UNCHANGED <<client, dir, err, ret, exit, payload, open, deferred, timers,
                   nodesResp, postStatus, stateResp, configResp, nAnswered, nAbsent>>

\* LookupVolume(dir), up to its first request.
CallLookupVolume ==
    /\ pc = "idle"
    /\ op' = "LookupVolume"
    /\ \E name \in Names :
        /\ dir' = name
        /\ IF impl = "flockerClient"
           THEN /\ datasetID' = PolledID(impl, name, "")
                /\ Issue(GetStates)
                /\ nChecks' = 1
                /\ pc' = "GetDatasetState"
           ELSE /\ Issue(GetConfigurations)
                /\ pc' = "QueryDatasetIDFromName"
                /\ UNCHANGED <<datasetID, nChecks>>
    /\ UNCHANGED <<client, err, ret, exit, payload, open, deferred, timers,
                   nodesResp, postStatus, stateResp, configResp, nAnswered, nAbsent>>

\* GET configuration/datasets is answered: the rest of QueryDatasetIDFromName,
\* and Client.LookupVolume up to GetDatasetState's request.
ConfigResponse ==
    /\ pc = "QueryDatasetIDFromName"
    /\ \E r \in ConfigResponses :
        LET res == QueryDatasetIDFromName(r, dir) IN
        /\ configResp' = r
        /\ err' = res.err
        /\ open' = Released(Obtained(open, r), r)
        /\ IF res.err # NoErr
           THEN /\ Return("", res.err, "query")
                /\ UNCHANGED <<datasetID, reqs, nChecks>>
           ELSE /\ datasetID' = PolledID(impl, dir, res.id)
                /\ Issue(GetStates)
                /\ nChecks' = 1
                /\ pc' = "GetDatasetState"
                /\ UNCHANGED <<ret, exit, deferred>>
    /\ UNCHANGED <<client, op, dir, payload, timers, nodesResp, postStatus, stateResp,
                   nAnswered, nAbsent>>

\* UpdateDatasetPrimary(dir, newPrimary), up to its POST.
CallUpdateDatasetPrimary ==
    /\ pc = "idle"
    /\ op' = "UpdateDatasetPrimary"
    /\ \E name \in Names, newPrimary \in UUIDs :
        /\ dir' = name
        /\ datasetID' = PolledID(impl, name, name)
        /\ payload' = UpdatePayload(newPrimary)
        /\ Issue(PostDatasetByID(PolledID(impl, name, name)))
    /\ pc' = "update"
    /\ UNCHANGED <<client, err, ret, exit, open, deferred, timers, ghost>>

\* The POST of UpdateDatasetPrimary is answered.
UpdateResponse ==
    /\ pc = "update"
    /\ \E r \in PostResponses :
        /\ err' = r.err
        /\ postStatus' = r.status
        /\ open' = Released(Obtained(open, r), r)
        /\ IF r.err # NoErr
           THEN Return("", r.err, "post")
           ELSE IF UpdateFailed(impl, r.status)
           THEN Return("", errUpdatingDataset, "updatefailed")
           ELSE Return("", NoErr, "updated")
    /\ payload' = NoPayload
    /\ UNCHANGED <<client, op, dir, datasetID, reqs, timers, nodesResp, stateResp, configResp,
                   nChecks, nAnswered, nAbsent>>

\* findIDInConfigurationsPayload(body, name), which sends nothing.
CallFindIDInConfigurationsPayload ==
    /\ pc = "idle"
    /\ op' = "findIDInConfigurationsPayload"
    /\ \E body \in ConfigBodies, name \in Names :
        LET res == findIDInConfigurationsPayload(body, name) IN
        /\ dir' = name
        /\ configResp' = body
        /\ err' = res.err
        /\ Return(res.id, res.err, "find")
    /\ UNCHANGED <<client, locals, reqs, open, timers, nodesResp, postStatus, stateResp,
                   nChecks, nAnswered, nAbsent>>

\* select receives from timeoutChan.
SelectTimeout ==
    /\ pc = "select"
    /\ timeoutChan
    /\ timeoutChan' = FALSE
    /\ open' = RunDeferred(open, deferred)
    /\ Return(TimeoutResult(err, errStateNotFound).path, TimeoutResult(err, errStateNotFound).err, "timeout")
    /\ UNCHANGED <<client, op, dir, err, locals, reqs, now, tickChan, ghost>>

\* A select with a default case: the next GetDatasetState begins whether or
\* not a tick is ready.
SelectDefault ==
    /\ pc = "select"
    /\ tickChan' = FALSE
    /\ Issue(GetStates)
    /\ nChecks' = nChecks + 1
    /\ pc' = "GetDatasetState"
    /\ UNCHANGED <<client, op, dir, err, ret, exit, locals, open, deferred, now, timeoutChan,
                   nodesResp, postStatus, stateResp, configResp, nAnswered, nAbsent>>

\* select receives from tickChan: the loop's next GetDatasetState begins.
SelectTick ==
    /\ pc = "select"
    /\ tickChan
    /\ tickChan' = FALSE
    /\ Issue(GetStates)
    /\ nChecks' = nChecks + 1
    /\ pc' = "GetDatasetState"
    /\ UNCHANGED <<client, op, dir, err, ret, exit, locals, open, deferred, now, timeoutChan,
                   nodesResp, postStatus, stateResp, configResp, nAnswered, nAbsent>>

\* Time passes while the loop waits: for a response, or in select.
Advance ==
    /\ op = "CreateVolume"
    /\ pc \in {"GetDatasetState", "select"}
    /\ now < MaxTime
    /\ now' = now + 1
    /\ timeoutChan' = (timeoutChan \/ TimerFires(now + 1))
    /\ tickChan' = (tickChan \/ TickerFires(now + 1))
    /\ UNCHANGED <<client, frame, locals, wire, ghost>>

Next ==
    \/ CallCreateVolume
    \/ CallLookupPrimaryUUID
    \/ CallGetDatasetState
    \/ CallLookupVolume
    \/ CallUpdateDatasetPrimary
    \/ CallFindIDInConfigurationsPayload
    \/ ConfigResponse
    \/ UpdateResponse
    \/ NodesResponse
    \/ PostResponse
    \/ StateResponse
    \/ SelectTimeout
    \/ SelectTick
    \/ Advance

Spec == Init /\ [][Next]_vars

(* Every request is answered, time passes, select proceeds when a channel  *)
(* is ready, and its random choice among ready channels does not avoid     *)
(* timeoutChan forever.                                                    *)
FairSpec ==
    /\ Spec
    /\ WF_vars(NodesResponse)
    /\ WF_vars(PostResponse)
    /\ WF_vars(StateResponse)
    /\ WF_vars(ConfigResponse)
    /\ WF_vars(UpdateResponse)
    /\ WF_vars(Advance)
    /\ WF_vars(SelectTimeout \/ SelectTick)
    /\ SF_vars(SelectTimeout)

----------------------------------------------------------------------------
(* What the properties below speak of *)

\* The GETs to state/datasets issued so far.
StateGets == Cardinality({k \in DOMAIN reqs : reqs[k] = GetStates})

\* The entries of a decoded state list that are for id.
EntriesFor(resp, id) ==
    {k \in 1..Len(resp.items) : ~resp.items[k].nil /\ resp.items[k].DatasetID = id}

HasEntryFor(resp, id) ==
    resp.err = NoErr /\ ~resp.malformed /\ EntriesFor(resp, id) # {}

Least(S) == CHOOSE m \in S : \A x \in S : m <= x

\* The latest state check has been answered.
CheckAnswered == op = "CreateVolume" /\ nChecks >= 1 /\ nAnswered = nChecks

\* The nodes of a decoded node list whose host is host.
NodesAt(resp, host) == {k \in 1..Len(resp.items) : resp.items[k].Host = host}

\* The first node at host, StateNotFound when there is none, the
\* transport's or the decoder's error unchanged.
FirstNodeAt(resp, host) ==
    IF resp.err # NoErr THEN [uuid |-> "", err |-> resp.err]
    ELSE IF resp.malformed THEN [uuid |-> "", err |-> DecodeError]
    ELSE IF NodesAt(resp, host) = {} THEN [uuid |-> "", err |-> errStateNotFound]
    ELSE [uuid |-> resp.items[Least(NodesAt(resp, host))].UUID, err |-> NoErr]

\* The primary lookup has just returned (its response is at hand).
LookedUp == nodesResp # NoResponse /\ pc \in {"done", "post"}

\* What the primary lookup returned.
LookupReturned ==
    IF pc = "post" THEN [uuid |-> payload.Primary, err |-> NoErr]
    ELSE [uuid |-> ret.path, err |-> ret.err]

----------------------------------------------------------------------------
(* C1: CreateVolume(name), when the primary lookup succeeds and the create *)
(* POST is answered with status 409, returns the identifier derived from   *)
(* name with no error, and issues no GET to state/datasets.                *)
C1_ConflictIsSuccess ==
    (op = "CreateVolume" /\ pc = "done" /\ postStatus = StatusConflict)
        => /\ ret = [path |-> datasetIDFromName(dir), err |-> NoErr]
           /\ StateGets = 0

(* C2: when every state check so far returned StateNotFound and the        *)
(* deadline is the event select acts on, CreateVolume returns a non-nil    *)
(* error and an empty path.                                                *)
C2_TimeoutIsError ==
    (op = "CreateVolume" /\ exit = "timeout")
        => /\ ret.err # NoErr
           /\ ret.path = ""

(* C3: once CreateVolume polls, it eventually returns, given that every    *)
(* request is answered and both timers fire.                               *)
C3_PollingReturns ==
    (op = "CreateVolume" /\ pc \in {"GetDatasetState", "select"}) ~> (pc = "done")

(* C4: if the first k-1 state checks are answered with lists that have no  *)
(* entry for the identifier and the k-th with a list that has one, with    *)
(* path P, CreateVolume returns P and no error after exactly k checks.     *)
C4_KthCheckReturnsPath ==
    (CheckAnswered /\ HasEntryFor(stateResp, datasetID) /\ nAbsent = nAnswered - 1)
        => /\ pc = "done"
           /\ ret = [path |-> stateResp.items[Least(EntriesFor(stateResp, datasetID))].Path,
                     err |-> NoErr]
           /\ StateGets = nAbsent + 1

(* C5: when a state check finds the volume ready, CreateVolume(name)       *)
(* returns the dataset id, datasetIDFromName(name), and no error.          *)
C5_ReturnsDatasetID ==
    (op = "CreateVolume" /\ exit = "ready")
        => ret = [path |-> datasetIDFromName(dir), err |-> NoErr]

C7_EveryStatusBelow300Polls ==
    (op = "CreateVolume" /\ postStatus # 0)
        => /\ (postStatus >= 300 /\ postStatus # StatusConflict)
                => /\ pc = "done"
                   /\ ret = [path |-> "", err |-> ErrCreating(postStatus)]
                   /\ StateGets = 0
           /\ postStatus < 300 => StateGets >= 1

(* C7, amended: as claimed, except that Client.CreateVolume, on a status   *)
(* < 300, first decodes the response body and returns the decoder's error, *)
(* with no state check, when that fails.                                   *)
C7_StatusDecides ==
    (op = "CreateVolume" /\ postStatus # 0)
        => /\ (postStatus >= 300 /\ postStatus # StatusConflict)
                => /\ pc = "done"
                   /\ ret = [path |-> "", err |-> ErrCreating(postStatus)]
                   /\ StateGets = 0
           /\ postStatus < 300
                => IF exit = "decode"
                   THEN /\ impl = "Client"
                        /\ ret = [path |-> "", err |-> DecodeError]
                        /\ StateGets = 0
                   ELSE StateGets >= 1

C7_Witness ==
    /\ op = "CreateVolume" /\ postStatus = 300 /\ exit = "status"
    /\ ret.err = ErrCreating(300)

(* C8: CreateVolume returns either no error and the path of an entry it    *)
(* observed for the identifier, or an error and an empty path.             *)
C8_PathOrError ==
    (op = "CreateVolume" /\ pc = "done")
        => \/ /\ ret.err = NoErr
              /\ HasEntryFor(stateResp, datasetID)
              /\ \E k \in EntriesFor(stateResp, datasetID) : ret.path = stateResp.items[k].Path
           \/ /\ ret.err # NoErr
              /\ ret.path = ""

(* C9, as claimed: the primary lookup returns the identifier of the first  *)
(* node whose host is the client's configured host, StateNotFound when     *)
(* there is none, and a transport or decode error unchanged.               *)
C9_FirstNodeAtHost ==
    LookedUp => LookupReturned = FirstNodeAt(nodesResp, c.host)

(* C9, amended: the node's host is compared with the client's host in      *)
(* flockerClient.findPrimaryUUID and with the client's clientIP in         *)
(* Client.LookupPrimaryUUID.                                               *)
C9_FirstNodeAtMatchedAddress ==
    LookedUp => LookupReturned =
        FirstNodeAt(nodesResp, IF impl = "Client" THEN c.clientIP ELSE c.host)

C9_Witness ==
    /\ op = "LookupPrimaryUUID" /\ pc = "done"
    /\ Cardinality({nodesResp.items[k].UUID : k \in NodesAt(nodesResp, "127.0.0.1")}) = 2
    /\ ret.err = NoErr

(* C10, as claimed: the POST's payload has the looked-up node identifier   *)
(* as primary, the identifier derived from name as dataset id, the         *)
(* client's ceiling as maximum size and name as metadata name.             *)
C10_PayloadHasDerivedID ==
    (op = "CreateVolume" /\ pc = "post")
        => payload = [Primary     |-> FirstNodeAt(nodesResp,
                                          IF impl = "Client" THEN c.clientIP ELSE c.host).uuid,
                      DatasetID   |-> datasetIDFromName(dir),
                      MaximumSize |-> c.maximumSize,
                      Name        |-> dir]

(* C10, amended: the dataset id is the identifier derived from name in     *)
(* flockerClient.CreateVolume, and is omitted in Client.CreateVolume.      *)
C10_Payload ==
    (op = "CreateVolume" /\ pc = "post")
        => payload = [Primary     |-> FirstNodeAt(nodesResp,
                                          IF impl = "Client" THEN c.clientIP ELSE c.host).uuid,
                      DatasetID   |-> IF impl = "Client" THEN "" ELSE datasetIDFromName(dir),
                      MaximumSize |-> c.maximumSize,
                      Name        |-> dir]

C10_Witness ==
    /\ op = "CreateVolume" /\ pc = "post" /\ impl = "flockerClient" /\ dir = "hello"
    /\ payload.DatasetID = "a6c0426f-f9a3-4b59-a62f-4807c382b768"
    /\ payload.Primary = "P2"
    /\ payload.MaximumSize = <<1, 0, 7, 3, 7, 4, 1, 8, 2, 4, 0, 0>>

(* C11: LookupVolume returns VolumeDoesNotExist exactly when its state     *)
(* check fails with StateNotFound; when the check succeeds it returns the  *)
(* entry's path and no error; any other error of the check is returned     *)
(* unmodified.                                                             *)
C11_LookupVolumeTranslates ==
    (op = "LookupVolume" /\ pc = "done")
        => /\ ret.err = errVolumeDoesNotExist <=> (nAnswered = 1 /\ Absent(stateResp, datasetID))
           /\ (nAnswered = 1 /\ HasEntryFor(stateResp, datasetID))
                => ret = [path |-> stateResp.items[Least(EntriesFor(stateResp, datasetID))].Path,
                          err |-> NoErr]
           /\ (nAnswered = 1 /\ stateResp.err # NoErr)
                => ret = [path |-> "", err |-> stateResp.err]
           /\ (nAnswered = 1 /\ stateResp.malformed)
                => ret = [path |-> "", err |-> DecodeError]

C11_Witness ==
    /\ op = "LookupVolume" /\ pc = "done" /\ nAnswered = 1
    /\ Len(stateResp.items) = 2
    /\ ret = [path |-> "", err |-> errVolumeDoesNotExist]

(* C12, as claimed: UpdateDatasetPrimary(name, newPrimaryID) issues one    *)
(* POST, to configuration/datasets/{id} with the id derived from name, and *)
(* nothing else; it returns UpdateFailed for every status outside          *)
(* [200,300) and success for every status inside.                          *)
C12_UpdateFailsOutside2xx ==
    (op = "UpdateDatasetPrimary" /\ pc = "done")
        => /\ reqs = <<Req("POST", "configuration/datasets/{id}", datasetIDFromName(dir))>>
           /\ postStatus # 0
                => /\ ret.err = errUpdatingDataset <=> (postStatus < 200 \/ postStatus >= 300)
                   /\ ret.err = NoErr <=> (postStatus >= 200 /\ postStatus < 300)

(* C12, amended: as claimed in flockerClient; Client.UpdateDatasetPrimary  *)
(* POSTs to configuration/datasets/{id} with its first argument as the id, *)
(* underived, and returns UpdateFailed only for a status >= 300, success   *)
(* for every status below 300.                                             *)
C12_Update ==
    (op = "UpdateDatasetPrimary" /\ pc = "done")
        => /\ reqs = <<Req("POST", "configuration/datasets/{id}",
                           IF impl = "Client" THEN dir ELSE datasetIDFromName(dir))>>
           /\ postStatus # 0
                => LET failed == IF impl = "Client" THEN postStatus >= 300
                                 ELSE postStatus < 200 \/ postStatus >= 300
                   IN /\ ret.err = errUpdatingDataset <=> failed
                      /\ ret.err = NoErr <=> ~failed

C12_Witness ==
    /\ op = "UpdateDatasetPrimary" /\ pc = "done" /\ impl = "flockerClient"
    /\ postStatus = 100 /\ ret.err = errUpdatingDataset
    /\ Len(reqs) = 1

\* The entries of a decoded configuration list whose metadata name is name.
EntriesNamed(body, name) == {k \in 1..Len(body.items) : body.items[k].Name = name}

(* C13: findIDInConfigurationsPayload returns the dataset id of the first  *)
(* entry, in list order, whose metadata name equals the requested name     *)
(* (the first of several wins); ConfigurationNotFound when no entry        *)
(* matches; the decoder's error when the body is malformed.                *)
C13_FirstConfigurationByName ==
    (op = "findIDInConfigurationsPayload" /\ pc = "done")
        => IF configResp.malformed THEN ret = [path |-> "", err |-> DecodeError]
           ELSE IF EntriesNamed(configResp, dir) = {}
           THEN ret = [path |-> "", err |-> errConfigurationNotFound]
           ELSE ret = [path |-> configResp.items[Least(EntriesNamed(configResp, dir))].DatasetID,
                       err |-> NoErr]

C13_Witness ==
    /\ op = "findIDInConfigurationsPayload" /\ pc = "done"
    /\ Cardinality(EntriesNamed(configResp, dir)) = 2
    /\ configResp.items[1].DatasetID # configResp.items[2].DatasetID
    /\ ret = [path |-> configResp.items[1].DatasetID, err |-> NoErr]

(* C14: GetDatasetState(id), once GET state/datasets is answered, returns  *)
(* the path of the first entry whose dataset id equals id; StateNotFound   *)
(* when no entry matches, the empty list included; the decoder's error     *)
(* when the body is malformed.                                             *)
C14_FirstStateByID ==
    (op = "GetDatasetState" /\ nAnswered = 1)
        => /\ pc = "done"
           /\ IF stateResp.err # NoErr THEN ret = [path |-> "", err |-> stateResp.err]
              ELSE IF stateResp.malformed THEN ret = [path |-> "", err |-> DecodeError]
              ELSE IF EntriesFor(stateResp, datasetID) = {}
              THEN ret = [path |-> "", err |-> errStateNotFound]
              ELSE ret = [path |-> stateResp.items[Least(EntriesFor(stateResp, datasetID))].Path,
                          err |-> NoErr]

\* The number a digit sequence writes, modulo m (Horner's rule).
RECURSIVE DigitsMod(_, _, _, _)
DigitsMod(digits, i, acc, m) ==
    IF i > Len(digits) THEN acc
    ELSE DigitsMod(digits, i + 1, (acc * 10 + digits[i]) % m, m)

(* C15: the default size ceiling is 107374182400, a multiple of 1024, and  *)
(* it is the maximum size a newly constructed client holds and sends in    *)
(* every create request.                                                   *)
C15_DefaultSizeCeiling ==
    /\ c.maximumSize = <<1, 0, 7, 3, 7, 4, 1, 8, 2, 4, 0, 0>>
    /\ DigitsMod(c.maximumSize, 1, 0, 1024) = 0
    /\ (op = "CreateVolume" /\ pc = "post")
            => /\ payload.MaximumSize = <<1, 0, 7, 3, 7, 4, 1, 8, 2, 4, 0, 0>>
               /\ DigitsMod(payload.MaximumSize, 1, 0, 1024) = 0

C15_Witness ==
    /\ op = "CreateVolume" /\ pc = "post" /\ reqs[Len(reqs)] = PostDatasets
    /\ Len(payload.MaximumSize) = 12
    /\ DigitsMod(payload.MaximumSize, 1, 0, 1024) = 0

(* C16, as claimed: CreateVolume, LookupVolume and UpdateDatasetPrimary,   *)
(* called with the same name, address the same identifier, the one         *)
(* datasetIDFromName gives for the name.                                   *)
C16_SameIdentifierForName ==
    /\ (op = "CreateVolume" /\ pc = "post") => payload.DatasetID = datasetIDFromName(dir)
    /\ (op \in {"CreateVolume", "LookupVolume"} /\ nChecks >= 1)
            => datasetID = datasetIDFromName(dir)
    /\ (op = "UpdateDatasetPrimary" /\ pc # "idle")
            => reqs = <<PostDatasetByID(datasetIDFromName(dir))>>

(* C16, amended: in flockerClient the three operations address the         *)
(* identifier datasetIDFromName gives for the name.  In Client none of     *)
(* them derives it: CreateVolume sends no dataset id, LookupVolume checks  *)
(* the id of the first configuration named so, and UpdateDatasetPrimary    *)
(* addresses its argument.                                                 *)
C16_IdentifierAddressed ==
    /\ (op = "CreateVolume" /\ pc = "post")
            => payload.DatasetID = IF impl = "flockerClient" THEN datasetIDFromName(dir) ELSE ""
    /\ (op = "CreateVolume" /\ nChecks >= 1 /\ impl = "flockerClient")
            => datasetID = datasetIDFromName(dir)
    /\ (op = "LookupVolume" /\ nChecks >= 1)
            => datasetID = IF impl = "flockerClient" THEN datasetIDFromName(dir)
                           ELSE configResp.items[Least(EntriesNamed(configResp, dir))].DatasetID
    /\ (op = "UpdateDatasetPrimary" /\ pc # "idle")
            => reqs = <<PostDatasetByID(IF impl = "flockerClient" THEN datasetIDFromName(dir)
                                        ELSE dir)>>

C16_Witness ==
    /\ impl = "flockerClient" /\ op = "LookupVolume" /\ dir = "dir"
    /\ nChecks = 1 /\ datasetID = "7c78121e-2056-48e9-9c8c-f6ee23187e22"
    /\ reqs = <<GetStates>>

(* C17: CreateVolume issues exactly one GET state/nodes, then at most one  *)
(* POST configuration/datasets, then zero or more GET state/datasets, and  *)
(* no other request.  When the primary lookup fails (StateNotFound,        *)
(* transport or decode error) it issues no POST and no state check, and    *)
(* returns the lookup's error unchanged.                                   *)
C17_RequestOrder ==
    op = "CreateVolume"
        => /\ Len(reqs) >= 1
           /\ reqs[1] = Req("GET", "state/nodes", "")
           /\ Len(reqs) >= 2 => reqs[2] = Req("POST", "configuration/datasets", "")
           /\ \A k \in 3..Len(reqs) : reqs[k] = Req("GET", "state/datasets", "")
           /\ nChecks = IF Len(reqs) >= 2 THEN Len(reqs) - 2 ELSE 0
           /\ (nodesResp # NoResponse /\ FirstNodeAt(nodesResp, MatchHost(impl, c)).err # NoErr)
                => /\ pc = "done"
                   /\ Len(reqs) = 1
                   /\ ret = [path |-> "",
                             err |-> IF nodesResp.err # NoErr THEN nodesResp.err
                                     ELSE IF nodesResp.malformed THEN DecodeError
                                     ELSE errStateNotFound]

C17_Witness ==
    /\ op = "CreateVolume" /\ pc = "done" /\ exit = "ready"
    /\ Len(reqs) = 4
    /\ reqs[3] = reqs[4]

(* C18: in the poll loop of CreateVolume, once the deadline has fired, no  *)
(* state check is started: at select the deadline takes precedence over a  *)
(* pending tick, so no path comes from a check started after the deadline. *)
C18_DeadlineTakesPrecedence ==
    [][(op = "CreateVolume" /\ pc = "select" /\ timeoutChan) => nChecks' = nChecks]_vars

(* C19: the deadline of CreateVolume is set once, on entering Polling, and *)
(* neither ticks nor state checks restart or extend it: it has fired       *)
(* exactly when timeoutWaitingForVolume has elapsed since then.            *)
C19_AbsoluteTimeout ==
    (op = "CreateVolume" /\ pc \in {"GetDatasetState", "select"})
        => (timeoutChan <=> now >= timeoutWaitingForVolume)

C19_Witness ==
    /\ op = "CreateVolume" /\ pc = "select"
    /\ nChecks >= 3 /\ nAnswered = nChecks
    /\ timeoutChan /\ now = timeoutWaitingForVolume

(* C20: within one CreateVolume at most one state check is outstanding at  *)
(* any time, and after the first each further state check begins by        *)
(* consuming one tick, with no state check outstanding.                    *)
C20_OneCheckPerTick ==
    /\ [](op = "CreateVolume"
            => /\ nChecks - nAnswered \in {0, 1}
               /\ nChecks - nAnswered = 1 <=> pc = "GetDatasetState")
    /\ [][(op = "CreateVolume" /\ nChecks >= 1 /\ nChecks' # nChecks)
            => /\ nChecks' = nChecks + 1
               /\ nAnswered = nChecks
               /\ tickChan /\ ~tickChan'
               /\ Len(reqs') = Len(reqs) + 1]_vars

C20_Witness ==
    /\ op = "CreateVolume" /\ pc = "GetDatasetState"
    /\ nChecks = 3 /\ nAnswered = 2 /\ ~tickChan

(* C21, as claimed: LookupVolume(name) derives the identifier from name    *)
(* and issues exactly one request, the GET to state/datasets; it sends     *)
(* nothing to the configuration endpoint, retries nothing, and never fails *)
(* with ConfigurationNotFound.                                             *)
C21_LookupIsOneStateGet ==
    op = "LookupVolume"
        => /\ reqs = <<Req("GET", "state/datasets", "")>>
           /\ datasetID = datasetIDFromName(dir)
           /\ ret.err # errConfigurationNotFound

(* C21, amended: flockerClient.LookupVolume does as claimed.               *)
(* Client.LookupVolume first issues one GET to configuration/datasets to   *)
(* find the identifier by name, then, only when that succeeded, one GET to *)
(* state/datasets; it retries nothing, and fails with                      *)
(* ConfigurationNotFound when no configuration has the name.               *)
C21_LookupRequests ==
    op = "LookupVolume"
        => IF impl = "flockerClient"
           THEN /\ reqs = <<Req("GET", "state/datasets", "")>>
                /\ datasetID = datasetIDFromName(dir)
                /\ ret.err # errConfigurationNotFound
           ELSE /\ Len(reqs) \in {1, 2}
                /\ reqs[1] = Req("GET", "configuration/datasets", "")
                /\ Len(reqs) = 2
                    => /\ reqs[2] = Req("GET", "state/datasets", "")
                       /\ configResp.err = NoErr /\ ~configResp.malformed
                       /\ EntriesNamed(configResp, dir) # {}
                /\ (pc # "QueryDatasetIDFromName" /\ configResp.err = NoErr
                        /\ ~configResp.malformed /\ EntriesNamed(configResp, dir) = {})
                    => /\ pc = "done" /\ Len(reqs) = 1
                       /\ ret = [path |-> "", err |-> errConfigurationNotFound]

C21_Witness ==
    /\ impl = "Client" /\ op = "LookupVolume" /\ pc = "done"
    /\ Len(configResp.items) = 2
    /\ ret.err = errConfigurationNotFound
    /\ reqs = <<GetConfigurations>>

(* C22: whenever CreateVolume, LookupVolume, UpdateDatasetPrimary,         *)
(* GetDatasetState or the primary lookup has returned, on any exit path,   *)
(* every response body it obtained has been closed: none is open.          *)
C22_BodiesClosed ==
    /\ open \in {0, 1}
    /\ (pc = "done" /\ op \in {"CreateVolume", "LookupVolume", "UpdateDatasetPrimary",
                              "GetDatasetState", "LookupPrimaryUUID"})
            => open = 0

C22_Witness ==
    /\ impl = "Client" /\ op = "CreateVolume" /\ pc = "done" /\ exit = "check"
    /\ nAnswered = 2 /\ stateResp.malformed
    /\ open = 0

(* C23: GetDatasetState never crashes on a well-formed list: for every     *)
(* decoded state list, one with an entry that carries none of the known    *)
(* fields included, it returns a matching entry or StateNotFound, and so   *)
(* do CreateVolume's poll and LookupVolume built on it.                    *)
C23_NoCrashOnWellFormedList ==
    (nAnswered >= 1 /\ nAnswered = nChecks /\ stateResp.err = NoErr /\ ~stateResp.malformed)
        => /\ pc # "panicked"
           /\ op = "GetDatasetState"
                => /\ pc = "done"
                   /\ ret.err \in {NoErr, errStateNotFound}
           /\ op = "LookupVolume"
                => /\ pc = "done"
                   /\ ret.err \in {NoErr, errVolumeDoesNotExist}
           /\ op = "CreateVolume" => pc \in {"done", "select"}

(* C24, as claimed: the identifier CreateVolume(name) polls for is the one *)
(* derived from name, which LookupVolume(name) searches for; so when       *)
(* CreateVolume(name) returned path P from a state list, LookupVolume(name)*)
(* evaluated against that list returns P with no error.                    *)
C24_RoundTripByName ==
    (op = "CreateVolume" /\ pc = "done" /\ exit = "ready")
        => /\ datasetID = datasetIDFromName(dir)
           /\ ~GetDatasetState(stateResp, datasetIDFromName(dir)).panicked
           /\ LookupVolumeResult(GetDatasetState(stateResp, datasetIDFromName(dir)))
                = [path |-> ret.path, err |-> NoErr]

(* C24, amended: in flockerClient as claimed.  Client.CreateVolume polls   *)
(* for the identifier in the server's response to the POST, and            *)
(* Client.LookupVolume searches for the identifier its name query finds;   *)
(* when the two are the same identifier, a path P that CreateVolume        *)
(* returned from a state list is what LookupVolume returns from that list, *)
(* with no error.                                                          *)
C24_RoundTrip ==
    (op = "CreateVolume" /\ pc = "done" /\ exit = "ready")
        => /\ impl = "flockerClient" => datasetID = datasetIDFromName(dir)
           /\ impl = "Client" => datasetID \in DatasetIDs
           /\ ~GetDatasetState(stateResp, datasetID).panicked
           /\ LookupVolumeResult(GetDatasetState(stateResp, datasetID))
                = [path |-> ret.path, err |-> NoErr]
           /\ ret.path = stateResp.items[Least(EntriesFor(stateResp, datasetID))].Path

C24_Witness ==
    /\ impl = "flockerClient" /\ op = "CreateVolume" /\ pc = "done" /\ exit = "ready"
    /\ dir = "dir" /\ ret = [path |-> "P", err |-> NoErr]
    /\ Len(stateResp.items) = 2
    /\ stateResp.items[1].DatasetID = datasetIDFromName("hello")
    /\ LookupVolumeResult(GetDatasetState(stateResp, datasetIDFromName("dir"))).path = "P"

====
